---- MODULE Spec2Model ----
(***************************************************************************)
(* A model of human_errors: the generic renderer dump() of                 *)
(* base_renderer.py and the TOML normalizer toml_dump() of                 *)
(* toml_renderer.py.                                                       *)
(*                                                                         *)
(* The state is the Python call stack (one record per activation of dump  *)
(* or toml_dump), the rows printed on the console so far, and the exit     *)
(* status of the process.  A suspended activation keeps only the locals    *)
(* that are still observable (its position, the request's document, line   *)
(* number and line count); the locals that are dead after the nested call  *)
(* are cleared.  Values the code reads from its environment are chosen     *)
(* where the code reads them: the document's lines at linecache.getlines,  *)
(* the calling frame's file name and line number where frame.f_code and    *)
(* frame.f_lineno are read.  Entry points are called from Python code, so  *)
(* inspect.currentframe().f_back is always the caller's frame.             *)
(***************************************************************************)
EXTENDS Integers, Sequences, FiniteSets, TLC

VARIABLES
    stack,        \* the call stack, bottom first: the activations of toml_dump and dump
    out,          \* the rows printed on the console during the current top-level call
    exit_status,  \* <<>> while the process runs, <<1>> after exit(1)
    crashed,      \* TRUE after an uncaught exception (AttributeError)
    ret           \* the activation that last returned control to user code

vars == <<stack, out, exit_status, crashed, ret>>

(***************************************************************************)
(* Bounds of the model.                                                    *)
(***************************************************************************)
MaxLines == 10
MaxContext == 2
MaxCol == 2
MaxExtra == 2
MaxCallerLine == 2

(***************************************************************************)
(* Program constants.                                                      *)
(***************************************************************************)
DefaultContext == 2
BaseRendererLines == 203
TomlRendererLines == 92
TypeReportLine == 55
LowerReportLine == 79
UpperReportLine == 86
UpgradeCallLine == 68
RenderCallLine == 83

Max(a, b) == IF a >= b THEN a ELSE b
Min(a, b) == IF a <= b THEN a ELSE b

(***************************************************************************)
(* Documents and source files.                                             *)
(***************************************************************************)
InlineSentinel == "<string>"
NotAPath == "<object>"
\* a str or a Path that names a file: both are resolved to the same absolute path
UserDoc == "doc.toml"
UserSource == "app.py"
BaseRenderer == "base_renderer.py"
TomlRenderer == "toml_renderer.py"

\* Path(doc_path).resolve().parent
ParentDir(doc) == IF doc \in {BaseRenderer, TomlRenderer} THEN "human_errors" ELSE "user"

\* The results linecache.getlines can give for a file, as line counts: any
\* number of lines for the target document (0: missing, unreadable or empty),
\* the module's own lines for the package's sources, and for the user's
\* source file either nothing (a pseudo file name, a deleted file) or a file
\* that holds the calling line.  The package is installed as source files.
GetLines(doc) ==
    CASE doc = UserDoc -> 0..MaxLines
      [] doc = UserSource -> {0, MaxLines}
      [] doc = BaseRenderer -> {BaseRendererLines}
      [] doc = TomlRenderer -> {TomlRendererLines}
      [] OTHER -> {0}

\* frame.f_code.co_filename of an activation of this package
ModuleFile(fn) == IF fn = "toml_dump" THEN TomlRenderer ELSE BaseRenderer

(***************************************************************************)
(* Request values.                                                         *)
(***************************************************************************)
Texts == {"c1", "c2"}
Notes == {"n1", "n2"}

UserCause(t) == [kind |-> "user", text |-> t, n |-> 0, m |-> 0]
LowerCause(line) == [kind |-> "line_number_lt_1", text |-> "", n |-> line, m |-> 1]
UpperCause(line, len) == [kind |-> "line_number_gt_len", text |-> "", n |-> line, m |-> len]
TypeCause == [kind |-> "doc_path_type", text |-> "", n |-> 0, m |-> 0]
StrCause == [kind |-> "str_exception", text |-> "", n |-> 0, m |-> 0]
NoCause == [kind |-> "", text |-> "", n |-> 0, m |-> 0]

\* column_number: None is <<>>, a number c is <<c>>
NoColumn == <<>>
Columns == {NoColumn} \cup {<<c>> : c \in 1..MaxCol}

\* extra: None, a str, or a list of str
NoExtra == [kind |-> "none", items |-> <<>>]
TextExtra(t) == [kind |-> "str", items |-> <<t>>]
SeqExtra(s) == [kind |-> "list", items |-> s]
UpgradeNote == TextExtra("upgrade")
Extras ==
    {NoExtra} \cup {TextExtra(t) : t \in {"", "n1"}}
        \cup {SeqExtra(s) : s \in UNION {[1..k -> Notes] : k \in 0..MaxExtra}}

\* A decode-failure value: each of msg, lineno, colno is present (<<v>>) or absent (<<>>)
CompleteExceptions ==
    [msg : {<<t>> : t \in Texts}, lineno : {<<l>> : l \in 1..(MaxLines + 1)},
     colno : {<<c>> : c \in 1..MaxCol}]
PartialExceptions ==
    {e \in [msg : {<<>>, <<"c1">>}, lineno : {<<>>, <<1>>}, colno : {<<>>, <<1>>}] :
        e.msg = <<>> \/ e.lineno = <<>> \/ e.colno = <<>>}
NoException == [msg |-> <<>>, lineno |-> <<>>, colno |-> <<>>]

(***************************************************************************)
(* The pure computations of dump and toml_dump.                            *)
(***************************************************************************)
\* CheckLine without its upper bound
CheckLineLowerOnly(line_number, len) == IF line_number < 1 THEN "lt" ELSE "ok"

\* the line-number validation: line_number < 1, line_number > len(code_lines)
CheckLine(line_number, len) ==
    IF line_number < 1 THEN "lt" ELSE IF line_number > len THEN "gt" ELSE "ok"

\* IsMetaError taking every self-report for a package error
IsMetaErrorAlways(doc) == TRUE

\* is_meta_error = doc_path_normalized.parent == human_errors_dir
IsMetaError(doc) == ParentDir(doc) = "human_errors"

\* StartLine without the clamp at line 1
StartLineUnclamped(line_number, context) == line_number - context

\* start_line = max(line_number - context, 1)
StartLine(line_number, context) == Max(line_number - context, 1)

\* end_line = min(line_number + context, doc_lines_count)
EndLine(line_number, context, doc_lines_count) == Min(line_number + context, doc_lines_count)

\* len(str(n)) for n >= 0
RECURSIVE StrLen(_)
StrLen(n) == IF n < 10 THEN 1 ELSE 1 + StrLen(n \div 10)

\* rjust = len(str(end_line))
Rjust(end_line) == StrLen(end_line)

\* the rows console.render(syntax) gives for line_range = (start_line, end_line):
\* one per line of the range
RenderedLines(start_line, end_line) == end_line - start_line + 1

\* error_color
ErrorColor(is_meta_error) == IF is_meta_error THEN "bright_magenta" ELSE "bright_red"

\* Startswith with its test inverted
StartswithInverted(has_past) == IF has_past THEN "blank" ELSE "continuation"

\* arrow_color
ArrowColor(is_meta_error) == IF is_meta_error THEN "bright_magenta" ELSE "bright_blue"

\* startswith of a context line: "│ " if has_past else "  "
Startswith(has_past) == IF has_past THEN "continuation" ELSE "blank"

\* " " * n: nothing for n <= 0
Spaces(n) == IF n > 0 THEN n ELSE 0

\* CaretPad taking the column for the number of spaces
CaretPadOffByOne(column_number) == Spaces(column_number)

\* the spaces before the caret: " " * (column_number - 1)
CaretPad(column_number) == Spaces(column_number - 1)

\* if extra:
ExtraTruthy(extra) ==
    CASE extra.kind = "none" -> FALSE
      [] extra.kind = "str" -> extra.items[1] # ""
      [] OTHER -> Len(extra.items) > 0

\* ExtraRows without the test of extra
ExtraRowsUnconditional(extra) == extra.items

\* the rows added to the table: a str is wrapped in a list, a list is iterated
ExtraRows(extra) == IF ExtraTruthy(extra) THEN extra.items ELSE <<>>

\* HasAllAttrs with any() for all()
HasAnyAttr(exception) ==
    exception.msg # <<>> \/ exception.lineno # <<>> \/ exception.colno # <<>>

\* all(hasattr(exception, attr) for attr in ("msg", "lineno", "colno"))
HasAllAttrs(exception) ==
    exception.msg # <<>> /\ exception.lineno # <<>> /\ exception.colno # <<>>

(***************************************************************************)
(* Activations and printed rows.                                           *)
(***************************************************************************)
NoFrame ==
    [fn |-> "", pc |-> "", doc |-> "", cause |-> NoCause, line |-> 0, col |-> NoColumn,
     ctx |-> 0, extra |-> NoExtra, total |-> 0, start_line |-> 0, end_line |-> 0,
     rjust |-> 0, meta |-> FALSE, has_past |-> FALSE, cur |-> 0, line_idx |-> 0,
     rendered |-> 0, callLine |-> 0, exit_now |-> FALSE, exception |-> NoException]

DumpFrame(doc, cause, line, col, ctx, extra) ==
    [NoFrame EXCEPT !.fn = "dump", !.pc = "start", !.doc = doc, !.cause = cause,
                    !.line = line, !.col = col, !.ctx = ctx, !.extra = extra]

TomlFrame(exception, doc, ctx, extra, exit_now) ==
    [NoFrame EXCEPT !.fn = "toml_dump", !.pc = "start", !.doc = doc, !.ctx = ctx,
                    !.extra = extra, !.exit_now = exit_now, !.exception = exception]

\* dump suspended in a self-report: after the nested call only exit(1) is left
SuspendedDump(f, len, callLine) ==
    [NoFrame EXCEPT !.fn = "dump", !.pc = "exit", !.doc = f.doc, !.line = f.line,
                    !.total = len, !.callLine = callLine]

\* toml_dump suspended in its call of dump
SuspendedToml(f, pc, callLine) ==
    [NoFrame EXCEPT !.fn = "toml_dump", !.pc = pc, !.doc = f.doc, !.callLine = callLine,
                    !.exit_now = f.exit_now, !.exception = f.exception]

NoRow ==
    [kind |-> "", depth |-> 0, doc |-> "", line |-> 0, col |-> NoColumn, glyph |-> "", gutter |-> 0,
     pad |-> 0, cause |-> NoCause, text |-> "", color |-> ""]

Top == stack[Len(stack)]
Running == exit_status = <<>> /\ ~crashed

\* frame.f_code.co_filename and frame.f_lineno of the frame that called the
\* activation at depth d: user code for the outermost activation, else the
\* activation below it at the line of its pending call
Callers(d) ==
    IF d = 1
    THEN {[file |-> f, lineno |-> l] : f \in {UserSource, InlineSentinel}, l \in 1..MaxCallerLine}
    ELSE {[file |-> ModuleFile(stack[d - 1].fn), lineno |-> stack[d - 1].callLine]}

\* dump(frame.f_code.co_filename, cause, frame.f_lineno) followed by exit(1)
SelfReport(f, len, cause, callLine) ==
    \E c \in Callers(Len(stack)) :
        /\ stack' = [stack EXCEPT ![Len(stack)] = SuspendedDump(f, len, callLine)]
                        \o <<DumpFrame(c.file, cause, c.lineno, NoColumn, DefaultContext, NoExtra)>>
        /\ UNCHANGED <<out, exit_status, crashed, ret>>

(***************************************************************************)
(* The operations.                                                         *)
(***************************************************************************)
Init ==
    /\ stack = <<>>
    /\ out = <<>>
    /\ exit_status = <<>>
    /\ crashed = FALSE
    /\ ret = NoFrame

\* user code calls dump(doc_path, cause, line_number, column_number, context, extra)
CallDump ==
    /\ Running
    /\ stack = <<>>
    /\ ret = NoFrame
    /\ \E doc \in {UserDoc, InlineSentinel, NotAPath}, t \in Texts, line \in 0..(MaxLines + 1),
          col \in Columns, ctx \in 0..MaxContext, extra \in Extras :
          stack' = <<DumpFrame(doc, UserCause(t), line, col, ctx, extra)>>
    /\ out' = <<>>
    /\ ret' = NoFrame
    /\ UNCHANGED <<exit_status, crashed>>

\* user code calls toml_dump(exception, doc_path, context, extra, exit_now)
CallTomlDump ==
    /\ Running
    /\ stack = <<>>
    /\ ret = NoFrame
    /\ \E e \in CompleteExceptions \cup PartialExceptions, doc \in {UserDoc, InlineSentinel, NotAPath},
          ctx \in 0..MaxContext, extra \in Extras, exit_now \in BOOLEAN :
          stack' = <<TomlFrame(e, doc, ctx, extra, exit_now)>>
    /\ out' = <<>>
    /\ ret' = NoFrame
    /\ UNCHANGED <<exit_status, crashed>>

\* toml_dump up to its call of dump
TomlDump ==
    /\ Running
    /\ stack # <<>>
    /\ Top.fn = "toml_dump"
    /\ Top.pc = "start"
    /\ LET f == Top
           e == f.exception
       IN  IF ~HasAllAttrs(e)
           THEN /\ stack' = [stack EXCEPT ![Len(stack)] = SuspendedToml(f, "exit", UpgradeCallLine)]
                                \o <<DumpFrame(f.doc, StrCause, 1, NoColumn, f.ctx, UpgradeNote)>>
                /\ UNCHANGED <<out, exit_status, crashed, ret>>
           ELSE IF e.msg = <<>> \/ e.lineno = <<>> \/ e.colno = <<>>
           THEN \* exception.msg, exception.lineno or exception.colno raises AttributeError
                /\ crashed' = TRUE
                /\ UNCHANGED <<stack, out, exit_status, ret>>
           ELSE /\ stack' = [stack EXCEPT ![Len(stack)] = SuspendedToml(f, "after_dump", RenderCallLine)]
                                \o <<DumpFrame(f.doc, UserCause(e.msg[1]), e.lineno[1], e.colno,
                                               f.ctx, f.extra)>>
                /\ UNCHANGED <<out, exit_status, crashed, ret>>

\* toml_dump after dump has returned: exit(1) on the upgrade path, else exit(1) if exit_now
TomlResume ==
    /\ Running
    /\ stack # <<>>
    /\ Top.fn = "toml_dump"
    /\ Top.pc \in {"exit", "after_dump"}
    /\ IF Top.pc = "exit" \/ Top.exit_now
       THEN /\ exit_status' = <<1>>
            /\ UNCHANGED <<stack, out, crashed, ret>>
       ELSE /\ ret' = Top
            /\ stack' = SubSeq(stack, 1, Len(stack) - 1)
            /\ UNCHANGED <<out, exit_status, crashed>>

\* dump from its entry to the end of the window computation
DumpStart ==
    /\ Running
    /\ stack # <<>>
    /\ Top.fn = "dump"
    /\ Top.pc = "start"
    /\ LET f == Top
           d == Len(stack)
       IN  IF f.doc = InlineSentinel
           THEN /\ out' = out \o <<[NoRow EXCEPT !.doc = f.doc, !.kind = "inline_code", !.depth = d],
                                   [NoRow EXCEPT !.doc = f.doc, !.kind = "initial_error", !.depth = d,
                                                 !.cause = f.cause]>>
                /\ exit_status' = <<1>>
                /\ UNCHANGED <<stack, crashed, ret>>
           ELSE IF f.doc = NotAPath
           THEN SelfReport(f, 0, TypeCause, TypeReportLine)
           ELSE \E len \in GetLines(f.doc) :
                    LET check == CheckLine(f.line, len)
                    IN  IF check = "lt"
                        THEN SelfReport(f, len, LowerCause(f.line), LowerReportLine)
                        ELSE IF check = "gt"
                        THEN SelfReport(f, len, UpperCause(f.line, len), UpperReportLine)
                        ELSE IF len = 0
                        THEN /\ out' = out \o <<[NoRow EXCEPT !.doc = f.doc, !.kind = "could_not_read", !.depth = d],
                                                [NoRow EXCEPT !.doc = f.doc, !.kind = "initial_error", !.depth = d,
                                                              !.cause = f.cause]>>
                             /\ stack' = [stack EXCEPT ![d] = [f EXCEPT !.pc = "unreadable"]]
                             /\ exit_status' = <<1>>
                             /\ UNCHANGED <<crashed, ret>>
                        ELSE /\ stack' = [stack EXCEPT ![d] =
                                   [f EXCEPT !.pc = "header", !.total = len,
                                             !.meta = IsMetaError(f.doc),
                                             !.start_line = StartLine(f.line, f.ctx),
                                             !.end_line = EndLine(f.line, f.ctx, len),
                                             !.rjust = Rjust(EndLine(f.line, f.ctx, len)),
                                             !.has_past = FALSE]]
                             /\ UNCHANGED <<out, exit_status, crashed, ret>>

\* the header row, and the highlighter's rows for the window
DumpHeader ==
    /\ Running
    /\ stack # <<>>
    /\ Top.fn = "dump"
    /\ Top.pc = "header"
    /\ LET f == Top
           d == Len(stack)
       IN  /\ out' = Append(out, [NoRow EXCEPT !.doc = f.doc, !.kind = "header", !.depth = d, !.line = f.line,
                                               !.col = f.col, !.pad = Spaces(f.rjust),
                                               !.color = ArrowColor(f.meta)])
           /\ stack' = [stack EXCEPT ![d] =
                  [f EXCEPT !.pc = "rows", !.rendered = RenderedLines(f.start_line, f.end_line),
                            !.cur = f.start_line, !.line_idx = 0]]
    /\ UNCHANGED <<exit_status, crashed, ret>>

\* one iteration of the loop over range(start_line, end_line + 1)
DumpRow ==
    /\ Running
    /\ stack # <<>>
    /\ Top.fn = "dump"
    /\ Top.pc = "rows"
    /\ LET f == Top
           d == Len(stack)
           next == IF f.cur = f.end_line THEN "footer" ELSE "rows"
           errorRow == [NoRow EXCEPT !.doc = f.doc, !.kind = "row", !.depth = d, !.line = f.cur, !.glyph = "open",
                                     !.gutter = f.rjust, !.color = ErrorColor(f.meta)]
           caretRow == [NoRow EXCEPT !.doc = f.doc, !.kind = "caret", !.depth = d, !.glyph = "continuation",
                                     !.gutter = Spaces(f.rjust), !.pad = CaretPad(f.col[1]),
                                     !.color = ErrorColor(f.meta)]
           contextRow == [NoRow EXCEPT !.doc = f.doc, !.kind = "row", !.depth = d, !.line = f.cur,
                                       !.glyph = Startswith(f.has_past), !.gutter = f.rjust,
                                       !.color = ErrorColor(f.meta)]
       IN  IF f.line_idx >= f.rendered
           THEN /\ stack' = [stack EXCEPT ![d] = [f EXCEPT !.pc = "footer"]]
                /\ out' = out
           ELSE IF f.cur = f.line
           THEN /\ out' = out \o (IF f.col # NoColumn THEN <<errorRow, caretRow>> ELSE <<errorRow>>)
                /\ stack' = [stack EXCEPT ![d] =
                       [f EXCEPT !.pc = next, !.has_past = TRUE, !.cur = f.cur + 1,
                                 !.line_idx = f.line_idx + 1]]
           ELSE /\ out' = Append(out, contextRow)
                /\ stack' = [stack EXCEPT ![d] =
                       [f EXCEPT !.pc = next, !.cur = f.cur + 1, !.line_idx = f.line_idx + 1]]
    /\ UNCHANGED <<exit_status, crashed, ret>>

\* the footer row and the annotation block
DumpFooter ==
    /\ Running
    /\ stack # <<>>
    /\ Top.fn = "dump"
    /\ Top.pc = "footer"
    /\ LET f == Top
           d == Len(stack)
           footer == [NoRow EXCEPT !.doc = f.doc, !.kind = "footer", !.depth = d, !.gutter = f.rjust,
                                   !.cause = f.cause, !.color = ErrorColor(f.meta)]
           rows == ExtraRows(f.extra)
           block == [i \in 1..Len(rows) |->
                        [NoRow EXCEPT !.doc = f.doc, !.kind = "annotation", !.depth = d, !.text = rows[i],
                                      !.color = IF f.meta THEN "yellow" ELSE "bright_blue"]]
       IN  /\ out' = Append(out, footer) \o block
           /\ stack' = [stack EXCEPT ![d] = [f EXCEPT !.pc = "done"]]
    /\ UNCHANGED <<exit_status, crashed, ret>>

\* dump returns to its caller
DumpReturn ==
    /\ Running
    /\ stack # <<>>
    /\ Top.fn = "dump"
    /\ Top.pc = "done"
    /\ stack' = SubSeq(stack, 1, Len(stack) - 1)
    /\ ret' = IF Len(stack) = 1 THEN Top ELSE ret
    /\ UNCHANGED <<out, exit_status, crashed>>

\* exit(1) after the self-report has returned
DumpExit ==
    /\ Running
    /\ stack # <<>>
    /\ Top.fn = "dump"
    /\ Top.pc = "exit"
    /\ exit_status' = <<1>>
    /\ UNCHANGED <<stack, out, crashed, ret>>

\* user code goes on after the call has returned; the next call starts a new frame
UserContinue ==
    /\ Running
    /\ stack = <<>>
    /\ ret # NoFrame
    /\ ret' = NoFrame
    /\ out' = <<>>
    /\ UNCHANGED <<stack, exit_status, crashed>>

Next ==
    \/ CallDump
    \/ CallTomlDump
    \/ TomlDump
    \/ TomlResume
    \/ DumpStart
    \/ DumpHeader
    \/ DumpRow
    \/ DumpFooter
    \/ DumpReturn
    \/ DumpExit
    \/ UserContinue

Spec == Init /\ [][Next]_vars

(***************************************************************************)
(* Properties.                                                             *)
(***************************************************************************)
\* the program's own steps (everything but user code's calls)
Step ==
    \/ TomlDump
    \/ TomlResume
    \/ DumpStart
    \/ DumpHeader
    \/ DumpRow
    \/ DumpFooter
    \/ DumpReturn
    \/ DumpExit

\* the rows the activation at depth d has printed, in order
PrintedAt(d) == SelectSeq(out, LAMBDA r : r.depth = d)
RowsAt(d, kind) == SelectSeq(out, LAMBDA r : r.depth = d /\ r.kind = kind)

\* the positions of the activations of dump that have validated their request
Validated == {i \in 1..Len(stack) : stack[i].fn = "dump" /\ stack[i].pc # "start"}
\* the positions of the activations of dump that are composing or have composed a frame
Composing == {i \in 1..Len(stack) : stack[i].fn = "dump"
                                      /\ stack[i].pc \in {"header", "rows", "footer", "done"}}
Composed == {i \in 1..Len(stack) : stack[i].fn = "dump" /\ stack[i].pc \in {"footer", "done"}}
\* the depths of the self-reports: activations of dump called by dump
SelfReports == {d \in 2..Len(stack) : stack[d - 1].fn = "dump"}
\* the depths at which a self-report runs or has run
ReportDepths == {d \in 2..(Len(stack) + 1) : stack[d - 1].fn = "dump" /\ stack[d - 1].pc = "exit"}
\* the decode-failure value lacks at least one of msg, lineno, colno
Lacks(e) == e.msg = <<>> \/ e.lineno = <<>> \/ e.colno = <<>>
IsFile(doc) == doc \notin {InlineSentinel, NotAPath}
ErrorMarks == {"row", "caret", "footer"}

\* C1: a call of dump that passes validation renders the window
\* start_line = max(1, line_number - context), end_line = min(total_lines,
\* line_number + context), and start_line <= line_number <= end_line.
C1_Window ==
    \A i \in Composing :
        LET f == stack[i]
        IN  /\ f.start_line = (IF f.line - f.ctx > 1 THEN f.line - f.ctx ELSE 1)
            /\ f.end_line = (IF f.line + f.ctx < f.total THEN f.line + f.ctx ELSE f.total)
            /\ f.start_line <= f.line
            /\ f.line <= f.end_line

\* C1 witness: a window clamped at both ends of a document of several lines
C1_Witness ==
    \E i \in Composing :
        /\ stack[i].line - stack[i].ctx < 1
        /\ stack[i].line + stack[i].ctx > stack[i].total
        /\ stack[i].start_line = 1
        /\ stack[i].end_line = stack[i].total
        /\ stack[i].total > 1

\* C2: a call of dump whose line_number is outside [1, total_lines] of the
\* resolved document takes the self-report (a nested dump on the caller's
\* file and line with the violated bound as its cause), prints no row of
\* its own, never returns, and the process ends with status 1.
C2_OutOfRangeIsFatal ==
    /\ \A i \in Validated :
           LET f == stack[i]
           IN  (IsFile(f.doc) /\ (f.line < 1 \/ f.line > f.total)) =>
                   /\ f.pc = "exit"
                   /\ f.callLine = (IF f.line < 1 THEN LowerReportLine ELSE UpperReportLine)
                   /\ PrintedAt(i) = <<>>
                   /\ i < Len(stack) =>
                          /\ stack[i + 1].fn = "dump"
                          /\ stack[i + 1].doc \in (IF i = 1 THEN {UserSource, InlineSentinel}
                                                    ELSE {ModuleFile(stack[i - 1].fn)})
                          /\ i > 1 => stack[i + 1].line = stack[i - 1].callLine
                          /\ stack[i + 1].pc \in {"start", "header", "rows", "footer", "done"} =>
                                 stack[i + 1].cause =
                                     (IF f.line < 1 THEN LowerCause(f.line)
                                      ELSE UpperCause(f.line, f.total))
                   /\ Running => ENABLED Step
                   /\ exit_status \in {<<>>, <<1>>}
    /\ ret.fn = "dump" => (ret.line >= 1 /\ ret.line <= ret.total)
    /\ ~crashed

\* C2 witness: a call one line past the end of a readable document has ended the process
\* after the self-report printed the bound as its cause
C2_Witness ==
    /\ exit_status = <<1>>
    /\ Len(stack) = 1
    /\ stack[1].fn = "dump"
    /\ stack[1].line = stack[1].total + 1
    /\ stack[1].total >= 1
    /\ \E k \in 1..Len(out) : out[k].kind = "footer" /\ out[k].cause.kind = "line_number_gt_len"

\* C3: toml_dump with a decode failure that carries msg, lineno and colno
\* ends the process only when exit_now is true, and then only after the
\* frame of the document has been rendered; this for every lineno up to one
\* past the last line of a readable document.
C3_FatalOnlyOnRequest ==
    (/\ exit_status = <<1>>
     /\ stack # <<>>
     /\ stack[1].fn = "toml_dump"
     /\ ~Lacks(stack[1].exception)
     /\ stack[1].doc = UserDoc
     /\ Len(stack) >= 2 => (stack[2].total >= 1 /\ stack[2].line <= stack[2].total + 1))
        => /\ stack[1].exit_now
           /\ Len(stack) = 1
           /\ \E k \in 1..Len(out) : out[k].kind = "footer" /\ out[k].depth = 2 /\ out[k].doc = UserDoc

C5_CouldNotReadPath ==
    \A i \in Validated :
        (IsFile(stack[i].doc) /\ stack[i].total = 0) =>
            /\ stack[i].pc = "unreadable"
            /\ \E k \in 1..Len(out) : out[k].kind = "could_not_read" /\ out[k].depth = i

\* C6: the self-report of a validation failure never fails the line-number
\* validation itself, whoever the caller is.
C6_SelfReportIsValid ==
    \A d \in SelfReports : stack[d].pc # "exit"

\* C7 (as claimed): the error marks of every caller-misuse diagnostic are
\* printed in the self-diagnostic palette (magenta), for callers inside and
\* outside the package.
C7_AlwaysSelfDiagnosticPalette ==
    \A k \in 1..Len(out) :
        (out[k].depth \in ReportDepths /\ out[k].kind \in ErrorMarks) =>
            out[k].color = "bright_magenta"

\* C7 (amended): every caller misuse is fatal with status 1 for every caller;
\* the error marks of its diagnostic are printed in the self-diagnostic palette
\* exactly when the reported source file lies in the package directory:
\* magenta for a misuse by the package's own code, red for user code.
C7_MisuseFatalPaletteByLocation ==
    /\ \A k \in 1..Len(out) :
           (out[k].depth \in ReportDepths /\ out[k].kind \in ErrorMarks) =>
               /\ out[k].color = (IF out[k].doc \in {BaseRenderer, TomlRenderer}
                                  THEN "bright_magenta" ELSE "bright_red")
               /\ out[k].doc \in {BaseRenderer, TomlRenderer} <=> out[k].depth > 2
    /\ \A d \in SelfReports :
           /\ stack[d - 1].pc = "exit"
           /\ Running => ENABLED Step
    /\ \A i \in 1..Len(stack) :
           (stack[i].fn = "dump" /\ stack[i].pc = "exit" /\ Running) => ENABLED Step
    /\ ret.fn = "dump" => ret.pc = "done"
    /\ exit_status \in {<<>>, <<1>>}

\* C7 witness: a misuse by user code whose source is readable: the report is printed in red
\* and the process has ended with status 1
C7_Witness ==
    /\ exit_status = <<1>>
    /\ Len(stack) = 1
    /\ stack[1].fn = "dump"
    /\ stack[1].pc = "exit"
    /\ \E k \in 1..Len(out) :
           /\ out[k].kind = "footer"
           /\ out[k].depth = 2
           /\ out[k].doc = UserSource
           /\ out[k].color = "bright_red"
           /\ out[k].cause.kind = "line_number_lt_1"

\* C8: the source rows of a frame come in ascending line order from
\* start_line to end_line; the margin is blank before the error line, open
\* on it and a continuation after it, and is decided by whether the error
\* line has been printed.
C8_RowGlyphs ==
    \A i \in Composing :
        LET f == stack[i]
            rows == RowsAt(i, "row")
        IN  /\ \A k \in 1..Len(rows) :
                   /\ rows[k].line = f.start_line + k - 1
                   /\ rows[k].glyph = (IF rows[k].line < f.line THEN "blank"
                                       ELSE IF rows[k].line = f.line THEN "open"
                                       ELSE "continuation")
            /\ f.pc = "header" => Len(rows) = 0
            /\ f.pc = "rows" => Len(rows) = f.cur - f.start_line
            /\ f.pc \in {"footer", "done"} => Len(rows) = f.end_line - f.start_line + 1
            /\ f.pc # "header" => (f.has_past <=> \E k \in 1..Len(rows) : rows[k].line = f.line)

\* C8 witness: the scenario: a 10-line document, line 5, radius 2
C8_Witness ==
    /\ Len(stack) = 1
    /\ stack[1].fn = "dump"
    /\ stack[1].pc = "done"
    /\ stack[1].total = 10
    /\ stack[1].line = 5
    /\ stack[1].ctx = 2
    /\ LET rows == RowsAt(1, "row")
       IN  /\ [k \in 1..Len(rows) |-> rows[k].line] = <<3, 4, 5, 6, 7>>
           /\ [k \in 1..Len(rows) |-> rows[k].glyph]
                  = <<"blank", "blank", "open", "continuation", "continuation">>
           /\ \A k \in 1..Len(rows) : rows[k].gutter = 1

\* C9: a frame has a caret row exactly when column_number is supplied; then
\* it has one, printed directly after the error line's row, with
\* column_number - 1 spaces before the caret, and its gutter is as wide as
\* that of every other row: the digit count of end_line.
C9_CaretRow ==
    \A i \in Composed :
        LET f == stack[i]
            mine == PrintedAt(i)
            carets == {k \in 1..Len(mine) : mine[k].kind = "caret"}
            width == IF f.end_line < 10 THEN 1 ELSE IF f.end_line < 100 THEN 2 ELSE 3
        IN  /\ f.col = NoColumn <=> carets = {}
            /\ Cardinality(carets) <= 1
            /\ \A k \in carets :
                   /\ k > 1
                   /\ mine[k - 1].kind = "row"
                   /\ mine[k - 1].line = f.line
                   /\ mine[k].pad = f.col[1] - 1
            /\ \A k \in 1..Len(mine) :
                   mine[k].kind \in {"row", "caret", "footer"} => mine[k].gutter = width

\* C9 witness: a caret at column 2 in a frame whose gutter is two digits wide
C9_Witness ==
    \E i \in Composed :
        /\ stack[i].col = <<2>>
        /\ stack[i].end_line >= 10
        /\ stack[i].line < stack[i].end_line
        /\ \E k \in 1..Len(out) : out[k].kind = "caret" /\ out[k].pad = 1 /\ out[k].gutter = 2

\* C10 (as claimed): the annotation block has one row for a text value and N
\* rows in order for a sequence of N items, the empty text included.
C10_OneRowPerAnnotation ==
    \A i \in 1..Len(stack) :
        (stack[i].fn = "dump" /\ stack[i].pc = "done") =>
            LET rows == RowsAt(i, "annotation")
            IN  /\ stack[i].extra.kind = "str" =>
                       (Len(rows) = 1 /\ rows[1].text = stack[i].extra.items[1])
                /\ stack[i].extra.kind = "list" =>
                       [k \in 1..Len(rows) |-> rows[k].text] = stack[i].extra.items

\* C10 (amended): a non-empty text value gives exactly one annotation row, a
\* sequence of N >= 1 items gives N rows in the original order, and an empty
\* text, an empty sequence or no value gives no annotation block at all.
C10_RowsWhenNonEmpty ==
    \A i \in 1..Len(stack) :
        (stack[i].fn = "dump" /\ stack[i].pc = "done") =>
            LET rows == RowsAt(i, "annotation")
                e == stack[i].extra
            IN  /\ (e.kind = "str" /\ e.items[1] # "") =>
                       (Len(rows) = 1 /\ rows[1].text = e.items[1])
                /\ e.kind = "list" => [k \in 1..Len(rows) |-> rows[k].text] = e.items
                /\ (e.kind = "none" \/ (e.kind = "str" /\ e.items[1] = "")) => Len(rows) = 0
                /\ \A k \in 1..Len(out) :
                       (out[k].kind = "annotation" /\ out[k].depth = i) =>
                           \E m \in 1..(k - 1) : out[m].kind = "footer" /\ out[m].depth = i

\* C10 witness: a sequence of two different annotations, printed in order
C10_Witness ==
    /\ Len(stack) = 1
    /\ stack[1].fn = "dump"
    /\ stack[1].pc = "done"
    /\ stack[1].extra = SeqExtra(<<"n1", "n2">>)
    /\ LET rows == RowsAt(1, "annotation")
       IN  [k \in 1..Len(rows) |-> rows[k].text] = <<"n1", "n2">>

====
